---- MODULE Spec2Model ----
(***************************************************************************)
(* Options market maker (MarketMaker over BaseMarketMaker): lattice        *)
(* pricer, quote engine, fill handlers and delta hedger.                   *)
(*                                                                         *)
(* Arithmetic.  The program computes in binary floating point; the model   *)
(* computes the same expressions exactly, as integer numerators over a     *)
(* stated denominator.  Prices are counted in ticks of 1/TicksPerUnit, a   *)
(* probability is a numerator over the snapshot's probability_den, and a   *)
(* lattice value after n layers is a numerator over                        *)
(* TicksPerUnit * probability_den^n.  Ledger quantities of underlyings are *)
(* counted in hundredths, requested trade quantities in thousandths.       *)
(***************************************************************************)
EXTENDS Integers, Sequences, FiniteSets, TLC

VARIABLES
    underlying_state,       \* BaseMarketMaker.underlying_state: list of Underlying
    active_option_state,    \* BaseMarketMaker.active_option_state: list of Option
    option_quantity_by_option_id,         \* Position: option id -> quantity
    underlying_quantity_by_underlying_id, \* Position: dict, as list of <<key, value>> in insertion order
    calls,                  \* invocations of trade_underlying_callback made by the last operation
    last,                   \* the last operation invoked and its outcome
    bid_hits,               \* number of on_bid_hit events per option id
    offer_hits,             \* number of on_offer_hit events per option id
    direct_calls,           \* number of direct buy_underlying / sell_underlying invocations
    ledger_changed          \* whether the last operation changed underlying_quantity_by_underlying_id

vars == <<underlying_state, active_option_state, option_quantity_by_option_id,
          underlying_quantity_by_underlying_id, calls, last, bid_hits, offer_hits,
          direct_calls, ledger_changed>>

(***************************** bounds ***************************************)
MaxSteps == 3
MaxHits == 2
MaxDirect == 1

(***************************** scales ***************************************)
\* bump_size is a quarter of the jump scale, so prices are counted in quarters.
TicksPerUnit == 4
\* Position.add_underlying_quantity rounds to 2 decimals: ledger in hundredths.
LedgerPerUnit == 100
\* requested quantities carry one more decimal than the ledger keeps.
QtyPerUnit == 10 * LedgerPerUnit

(***************************** helpers **************************************)
Abs(x) == IF x < 0 THEN -x ELSE x
Max(a, b) == IF a >= b THEN a ELSE b
Min(a, b) == IF a <= b THEN a ELSE b

RECURSIVE Pow(_, _)
Pow(b, e) == IF e = 0 THEN 1 ELSE b * Pow(b, e - 1)

\* Python round(): nearest, ties to even; num/den with den > 0.
RoundHalfEven(num, den) ==
    LET f == num \div den
        r == num - f * den
    IN  IF 2 * r < den THEN f
        ELSE IF 2 * r > den THEN f + 1
        ELSE IF f % 2 = 0 THEN f ELSE f + 1

(***************************** data *****************************************)
OptionTypes == {"CALL", "PUT"}

\* Option.__post_init__
ValidOption(o) == o.steps_until_expiry >= 0

\* Underlying.__post_init__; the drift tolerance 1e-5 is 1/100000.
ValidUnderlying(u) ==
    /\ ~(u.down_move_step <= 0 \/ u.up_move_step <= 0)
    /\ ~(u.down_move_probability <= 0 \/ u.up_move_probability <= 0)
    /\ ~(u.down_move_probability + u.up_move_probability # u.probability_den)
    /\ ~(100000 * (u.down_move_probability * u.down_move_step
                   - u.up_move_probability * u.up_move_step)
           > TicksPerUnit * u.probability_den)

Underlying(id, val, dp, ds, up, us, pd) ==
    [underlying_id |-> id, valuation |-> val,
     down_move_probability |-> dp, down_move_step |-> ds,
     up_move_probability |-> up, up_move_step |-> us, probability_den |-> pd]

Option(id, type, steps, strike, uid) ==
    [option_id |-> id, option_type |-> type, steps_until_expiry |-> steps,
     strike |-> strike, underlying_id |-> uid]

NoUnderlying == Underlying(0, 0, 0, 0, 0, 0, 1)
NoOption == Option(0, "CALL", 0, 0, 0)

\* Option.expiry_valuation
expiry_valuation(o, underlying_valuation) ==
    IF o.option_type = "CALL"
    THEN Max(0, underlying_valuation - o.strike * TicksPerUnit)
    ELSE Max(0, o.strike * TicksPerUnit - underlying_valuation)

\* for u in self.underlying_state: if u.underlying_id == id: ...; break
\* (None when no snapshot carries the id)
RECURSIVE FindFrom(_, _, _)
FindFrom(us, id, i) ==
    IF i > Len(us) THEN NoUnderlying
    ELSE IF us[i].underlying_id = id THEN us[i]
    ELSE FindFrom(us, id, i + 1)

FindUnderlying(us, id) == FindFrom(us, id, 1)

(***************************** lattice pricer *******************************)
PayoffSwapped(type, final_price, strike_price) ==
    IF type = "CALL" THEN Max(strike_price - final_price, 0)
    ELSE Max(final_price - strike_price, 0)

\* values[j] = max(final_price - strike_price, 0) / max(strike_price - final_price, 0)
Payoff(type, final_price, strike_price) ==
    IF type = "CALL" THEN Max(final_price - strike_price, 0)
    ELSE Max(strike_price - final_price, 0)

\* for j in range(steps_left + 1): final_price = spot + j*up - (steps_left - j)*down
TerminalValues(type, strike_price, spot_price, up_step, down_step, steps_left) ==
    [j \in 0..steps_left |->
        Payoff(type, spot_price + (j * up_step) - ((steps_left - j) * down_step),
               strike_price)]

\* for j in range(t + 1): values[j] = pUp*values[j+1] + pDown*values[j]  (in place)
RECURSIVE InnerLoop(_, _, _, _, _)
InnerLoop(values, t, j, p_up, p_down) ==
    IF j > t THEN values
    ELSE InnerLoop([values EXCEPT ![j] = (p_up * values[j + 1]) + (p_down * values[j])],
                   t, j + 1, p_up, p_down)

\* the same layer walked from j = t down to 0: reads entries already overwritten
RECURSIVE InnerLoopDescending(_, _, _, _, _)
InnerLoopDescending(values, t, j, p_up, p_down) ==
    IF j < 0 THEN values
    ELSE InnerLoopDescending(
             [values EXCEPT ![j] = (p_up * values[j + 1]) + (p_down * values[j])],
             t, j - 1, p_up, p_down)

\* one layer of the induction, mis-ordered (j from t down to 0)
LayerDescending(values, t, p_up, p_down) ==
    InnerLoopDescending(values, t, t, p_up, p_down)

\* one layer of the induction: for j in range(t + 1)
Layer(values, t, p_up, p_down) == InnerLoop(values, t, 0, p_up, p_down)

\* for t in range(steps_left - 1, -1, -1): <inner loop>
RECURSIVE BackwardInduction(_, _, _, _)
BackwardInduction(values, t, p_up, p_down) ==
    IF t < 0 THEN values
    ELSE BackwardInduction(Layer(values, t, p_up, p_down), t - 1, p_up, p_down)

\* The lattice of price_option / price_with_spot: numerator of values[0] over
\* TicksPerUnit * probability_den^steps_left.
Lattice(o, u, spot_price) ==
    LET steps_left == o.steps_until_expiry
        values == TerminalValues(o.option_type, o.strike * TicksPerUnit, spot_price,
                                 u.up_move_step, u.down_move_step, steps_left)
    IN  BackwardInduction(values, steps_left - 1,
                          u.up_move_probability, u.down_move_probability)[0]

\* denominator of every price of option o on underlying u
PriceDen(o, u) == TicksPerUnit * Pow(u.probability_den, o.steps_until_expiry)

Raised(kind) == [raised |-> kind, num |-> 0, den |-> 1]

ExpiryPayoffSwapped(type, spot_price, strike_price) ==
    IF type = "CALL" THEN Max(strike_price - spot_price, 0)
    ELSE Max(spot_price - strike_price, 0)

\* if steps_left <= 0: return max(spot - strike, 0) / max(strike - spot, 0)
ExpiryPayoff(type, spot_price, strike_price) ==
    IF type = "CALL" THEN Max(spot_price - strike_price, 0)
    ELSE Max(strike_price - spot_price, 0)

\* MarketMaker.price_option: [raised, num, den], the price being num/den.
\* A missing underlying leaves underlying = None, and None.valuation raises.
price_option(us, o) ==
    LET steps_left == o.steps_until_expiry
        underlying == FindUnderlying(us, o.underlying_id)
    IN  IF underlying = NoUnderlying THEN Raised("AttributeError")
        ELSE IF steps_left <= 0
        THEN [raised |-> "none",
              num |-> ExpiryPayoff(o.option_type, underlying.valuation,
                                   o.strike * TicksPerUnit),
              den |-> PriceDen(o, underlying)]
        ELSE [raised |-> "none",
              num |-> Lattice(o, underlying, underlying.valuation),
              den |-> PriceDen(o, underlying)]

\* price_with_spot closure of make_market and of on_step_advance: the lattice at
\* an explicit spot, with no expiry shortcut (steps_left = 0 gives values[0]).
price_with_spot(o, u, spot_price) == Lattice(o, u, spot_price)

\* bump_size = max(1e-6, 0.5 * (|up| + |down|) * 0.5), in ticks; the floor of
\* 1e-6 never binds for steps of at least one tick.
bump_size(u) == (Abs(u.up_move_step) + Abs(u.down_move_step)) \div 4

(***************************** position ledger ******************************)
\* dict lookups on a list of <<key, value>> kept in insertion order
DictHas(d, k) == \E i \in 1..Len(d) : d[i][1] = k
DictGet(d, k, default) ==
    IF DictHas(d, k) THEN d[CHOOSE i \in 1..Len(d) : d[i][1] = k][2] ELSE default
\* d[k] += q on a defaultdict / d[k] = d.get(k, 0) + q: a new key goes last
DictAdd(d, k, q) ==
    IF DictHas(d, k)
    THEN [i \in 1..Len(d) |-> IF d[i][1] = k THEN <<k, d[i][2] + q>> ELSE d[i]]
    ELSE Append(d, <<k, q>>)

\* Position.add_option_quantity
add_option_quantity(quantities, option_id, quantity) ==
    [quantities EXCEPT ![option_id] = @ + quantity]

\* Position.add_underlying_quantity: quantity = round(quantity, 2), then +=
\* (requested quantity in thousandths, ledger in hundredths)
add_underlying_quantity(ledger, underlying_id, quantity) ==
    DictAdd(ledger, underlying_id,
            RoundHalfEven(quantity, QtyPerUnit \div LedgerPerUnit))

(***************************** trading **************************************)
Traded(raised, ledger, made) == [raised |-> raised, ledger |-> ledger, calls |-> made]
Call(underlying_id, quantity) == [underlying_id |-> underlying_id, quantity |-> quantity]

\* the guard written with < instead of <=
buy_underlying_zero_allowed(ledger, underlying_id, quantity, failing) ==
    IF quantity < 0 THEN Traded("ValueError", ledger, <<>>)
    ELSE IF underlying_id \in failing
    THEN Traded("CallbackError", ledger, <<Call(underlying_id, quantity)>>)
    ELSE Traded("none", add_underlying_quantity(ledger, underlying_id, quantity),
                <<Call(underlying_id, quantity)>>)

\* BaseMarketMaker.buy_underlying; the callback raises for the ids in `failing`
buy_underlying(ledger, underlying_id, quantity, failing) ==
    IF quantity <= 0 THEN Traded("ValueError", ledger, <<>>)
    ELSE IF underlying_id \in failing
    THEN Traded("CallbackError", ledger, <<Call(underlying_id, quantity)>>)
    ELSE Traded("none", add_underlying_quantity(ledger, underlying_id, quantity),
                <<Call(underlying_id, quantity)>>)

\* the position recorded before the callback is invoked
sell_underlying_records_first(ledger, underlying_id, quantity, failing) ==
    IF quantity <= 0 THEN Traded("ValueError", ledger, <<>>)
    ELSE IF underlying_id \in failing
    THEN Traded("CallbackError", add_underlying_quantity(ledger, underlying_id, -quantity),
                <<Call(underlying_id, -quantity)>>)
    ELSE Traded("none", add_underlying_quantity(ledger, underlying_id, -quantity),
                <<Call(underlying_id, -quantity)>>)

\* BaseMarketMaker.sell_underlying
sell_underlying(ledger, underlying_id, quantity, failing) ==
    IF quantity <= 0 THEN Traded("ValueError", ledger, <<>>)
    ELSE IF underlying_id \in failing
    THEN Traded("CallbackError", ledger, <<Call(underlying_id, -quantity)>>)
    ELSE Traded("none", add_underlying_quantity(ledger, underlying_id, -quantity),
                <<Call(underlying_id, -quantity)>>)

(***************************** hedger ***************************************)
\* underlyings_by_id = {u.underlying_id: u for u in self.underlying_state}:
\* the last snapshot carrying the id; a missing id is a KeyError
underlyings_by_id(us, id) ==
    LET idx == {i \in 1..Len(us) : us[i].underlying_id = id}
    IN  IF idx = {} THEN NoUnderlying
        ELSE us[CHOOSE i \in idx : \A k \in idx : k <= i]

\* Net deltas of underlying u are numerators over DeltaDen(u).
DeltaDen(u) ==
    LedgerPerUnit * 2 * Pow(u.probability_den, MaxSteps) * bump_size(u)

\* delta_estimate = (value_up - value_down) / (2 * bump_size), over DeltaDen(u)
delta_estimate(o, u) ==
    LET b == bump_size(u)
        value_up == price_with_spot(o, u, u.valuation + b)
        value_down == price_with_spot(o, u, u.valuation - b)
    IN  (value_up - value_down)
           * Pow(u.probability_den, MaxSteps - o.steps_until_expiry) * LedgerPerUnit

\* net_delta_by_underlying[underlying_id] = float(quantity) for every ledger
\* entry (numerator over DeltaDen of the underlying, over LedgerPerUnit when
\* the snapshot list lacks it)
SeedNetDelta(us, ledger) ==
    [i \in 1..Len(ledger) |->
        LET u == underlyings_by_id(us, ledger[i][1])
        IN  <<ledger[i][1],
              IF u = NoUnderlying THEN ledger[i][2]
              ELSE ledger[i][2] * (DeltaDen(u) \div LedgerPerUnit)>>]

\* for option in self.active_option_state: skip a zero quantity, else add
\* option_quantity * delta_estimate to the option's underlying
RECURSIVE AddOptionDeltas(_, _, _, _, _)
AddOptionDeltas(net, us, os, quantities, i) ==
    IF i > Len(os) THEN [raised |-> "none", net |-> net]
    ELSE LET option == os[i]
             option_quantity ==
                 IF option.option_id \in DOMAIN quantities
                 THEN quantities[option.option_id] ELSE 0
             underlying == underlyings_by_id(us, option.underlying_id)
         IN  IF option_quantity = 0
             THEN AddOptionDeltas(net, us, os, quantities, i + 1)
             ELSE IF underlying = NoUnderlying
             THEN [raised |-> "KeyError", net |-> net]
             ELSE AddOptionDeltas(
                      DictAdd(net, option.underlying_id,
                              option_quantity * delta_estimate(option, underlying)),
                      us, os, quantities, i + 1)

\* the excess times -0.6, as the comment on the adjustment says
quantity_to_trade_partial(delta_total, den) ==
    LET target_edge == IF delta_total > 0 THEN den ELSE -den
        excess_exposure == 10 * delta_total - target_edge
    IN  RoundHalfEven(-6 * excess_exposure, 100 * den)

\* int(adjustment) without round()
quantity_to_trade_truncated(delta_total, den) ==
    LET target_edge == IF delta_total > 0 THEN den ELSE -den
        adjustment == -(10 * delta_total - target_edge)
    IN  IF adjustment >= 0 THEN adjustment \div (10 * den)
        ELSE -((-adjustment) \div (10 * den))

\* target_edge = +-safe_band; excess_exposure = delta_total - target_edge;
\* adjustment = excess_exposure * (-1.00); int(round(adjustment)).
\* delta_total is a numerator over den; safe_band = 0.1.
quantity_to_trade(delta_total, den) ==
    LET target_edge == IF delta_total > 0 THEN den ELSE -den     \* over 10 * den
        excess_exposure == 10 * delta_total - target_edge        \* over 10 * den
        adjustment == -excess_exposure
    IN  RoundHalfEven(adjustment, 10 * den)

\* abs(delta_total) <= safe_band
WithinSafeBand(delta_total, den) == 10 * Abs(delta_total) <= den

\* for underlying_id, delta_total in net_delta_by_underlying.items(): ...
RECURSIVE HedgeLoop(_, _, _, _, _, _)
HedgeLoop(net, i, us, ledger, made, failing) ==
    IF i > Len(net) THEN Traded("none", ledger, made)
    ELSE LET underlying_id == net[i][1]
             delta_total == net[i][2]
             underlying == underlyings_by_id(us, underlying_id)
             qty == quantity_to_trade(delta_total, DeltaDen(underlying))
             trade == IF qty > 0
                      THEN buy_underlying(ledger, underlying_id, qty * QtyPerUnit, failing)
                      ELSE sell_underlying(ledger, underlying_id, (-qty) * QtyPerUnit, failing)
         IN  IF underlying = NoUnderlying THEN Traded("KeyError", ledger, made)
             ELSE IF WithinSafeBand(delta_total, DeltaDen(underlying)) \/ qty = 0
             THEN HedgeLoop(net, i + 1, us, ledger, made, failing)
             ELSE IF trade.raised # "none"
             THEN Traded(trade.raised, trade.ledger, made \o trade.calls)
             ELSE HedgeLoop(net, i + 1, us, trade.ledger, made \o trade.calls, failing)

\* the hedging part of MarketMaker.on_step_advance, on the new snapshots
Hedge(us, os, quantities, ledger, failing) ==
    LET deltas == AddOptionDeltas(SeedNetDelta(us, ledger), us, os, quantities, 1)
    IN  IF deltas.raised # "none" THEN Traded(deltas.raised, ledger, <<>>)
        ELSE HedgeLoop(deltas.net, 1, us, ledger, <<>>, failing)

(***************************** quote engine *********************************)
NoQuote(kind) == [raised |-> kind, bid |-> 0, offer |-> 0, den |-> 1]

\* is_calm_underlying and is_far_from_expiry and is_not_ultra_atm, where
\* moneyness = |spot - strike| / max(1, spot) is compared with 0.10
IsCalm(o, u) ==
    LET jump_scale == Abs(u.up_move_step) + Abs(u.down_move_step)
        spot_price == u.valuation
        strike_price == o.strike * TicksPerUnit
    IN  /\ jump_scale < 2 * TicksPerUnit
        /\ o.steps_until_expiry >= 3
        /\ 10 * Abs(spot_price - strike_price) >= Max(TicksPerUnit, spot_price)

\* Numerator of base_spread + jump_addon + risk_spread over
\* 1000 * TicksPerUnit * W * bump^2, W = probability_den^steps_left:
\*   base_abs_spread 0.1, base_pct_spread 0.006 * max(1, fair_value),
\*   jump_addon 0.10 * jump_scale, delta_term 0.15 * min(1, |delta|),
\*   gamma_term 0.03 * min(0, |gamma| * option_step_scale).
SpreadTerms(o, u, fair_value, fair_value_up, fair_value_down) ==
    LET W == Pow(u.probability_den, o.steps_until_expiry)
        b == bump_size(u)
        jump_scale == Abs(u.up_move_step) + Abs(u.down_move_step)
        price_scale == Max(TicksPerUnit * W, fair_value)
        delta_num == fair_value_up - fair_value_down       \* over 2*W*b
        gamma_num == fair_value_up + fair_value_down - 2 * fair_value
        delta_term == 75 * TicksPerUnit * b * Min(2 * W * b, Abs(delta_num))
        gamma_term == 15 * TicksPerUnit * Min(0, Abs(gamma_num) * jump_scale)
    IN  (100 * TicksPerUnit * W * b * b) + (6 * price_scale * b * b)
        + (100 * W * b * b * jump_scale) + delta_term + gamma_term

\* MarketMaker.make_market: [raised, bid, offer, den], the quote being
\* (bid/den, offer/den), den = 4000 * TicksPerUnit * W * bump^2 * (steps_left + 1).
\* In the calm branch `spread` is read before any assignment (UnboundLocalError);
\* at expiry `intrinsic` is read but only `intrisic` was assigned (NameError).
make_market(us, o) ==
    LET fair == price_option(us, o)
        steps_left == o.steps_until_expiry
        u == FindUnderlying(us, o.underlying_id)
        W == Pow(u.probability_den, steps_left)
        b == bump_size(u)
        fair_value == fair.num
        fair_value_up == price_with_spot(o, u, u.valuation + b)
        fair_value_down == price_with_spot(o, u, u.valuation - b)
        price_scale == Max(TicksPerUnit * W, fair_value)
        \* time_factor = 1 + 1.5 / (1 + steps_left) = (2*steps_left + 5) / (2*(steps_left + 1))
        spread_raw == SpreadTerms(o, u, fair_value, fair_value_up, fair_value_down)
                         * (2 * steps_left + 5)
        QS == 2000 * TicksPerUnit * W * b * b * (steps_left + 1)
        min_spread == 60 * TicksPerUnit * W * b * b * (steps_left + 1)
        max_spread == 10 * QS + 200 * b * b * (steps_left + 1) * price_scale
        spread == Max(min_spread, Min(spread_raw, max_spread))
        \* half_spread = spread / 2: the same numerator over 2 * QS
        fair_h == fair_value * 4000 * b * b * (steps_left + 1)
    IN  IF fair.raised # "none" THEN NoQuote(fair.raised)
        ELSE IF IsCalm(o, u) THEN NoQuote("UnboundLocalError")
        ELSE IF steps_left <= 0 THEN NoQuote("NameError")
        ELSE [raised |-> "none",
              bid |-> Max(fair_h - spread, 0),
              offer |-> fair_h + spread,
              den |-> 2 * QS]

(***************************** inputs ***************************************)
\* Underlying 1: up 0.25 with probability 3/4, down 0.75 with probability 1/4.
U1(val) == Underlying(1, val, 1, 3, 3, 1, 4)
\* Underlying 2: up 1 / down 1 with probability 1/2 each.
U2(val) == Underlying(2, val, 1, 4, 1, 4, 2)
\* Underlying 2 drifting upwards (up 1.5, down 0.5): the constructor accepts it.
U2Up(val) == Underlying(2, val, 1, 2, 1, 6, 2)

Snapshots ==
    { <<U1(40), U2(400)>>, <<U1(41), U2(420)>>, <<U2Up(396), U1(36)>>, <<U1(40)>> }

UnderlyingIds == {1, 2}
Strikes == [uid \in UnderlyingIds |-> IF uid = 1 THEN {9, 10, 12} ELSE {100, 105}]

\* every option a caller may ask a price or a quote for
QueryOptions ==
    UNION { { Option(9, type, steps, strike, uid) :
                type \in OptionTypes, steps \in 0..MaxSteps, strike \in Strikes[uid] } :
            uid \in UnderlyingIds }

Operation(name, o, r) ==
    [name |-> name, option |-> o, underlying |-> NoUnderlying,
     underlying_id |-> 0, quantity |-> 0,
     raised |-> r.raised, num |-> r.num, bid |-> r.bid, offer |-> r.offer,
     den |-> r.den, repeat |-> "no"]

NoResult == [raised |-> "none", num |-> 0, bid |-> 0, offer |-> 0, den |-> 1]

(***************************** pure queries *********************************)
PriceOption(o) ==
    /\ ValidOption(o)
    /\ last' = Operation("price_option", o,
                         [NoResult EXCEPT !.raised = price_option(underlying_state, o).raised,
                                          !.num = price_option(underlying_state, o).num,
                                          !.den = price_option(underlying_state, o).den])
    /\ calls' = <<>>
    /\ ledger_changed' = FALSE
    /\ UNCHANGED <<underlying_state, active_option_state, option_quantity_by_option_id,
                   underlying_quantity_by_underlying_id, bid_hits, offer_hits, direct_calls>>

MakeMarket(o) ==
    /\ ValidOption(o)
    /\ last' = Operation("make_market", o,
                         [NoResult EXCEPT !.raised = make_market(underlying_state, o).raised,
                                          !.bid = make_market(underlying_state, o).bid,
                                          !.offer = make_market(underlying_state, o).offer,
                                          !.den = make_market(underlying_state, o).den])
    /\ calls' = <<>>
    /\ ledger_changed' = FALSE
    /\ UNCHANGED <<underlying_state, active_option_state, option_quantity_by_option_id,
                   underlying_quantity_by_underlying_id, bid_hits, offer_hits, direct_calls>>

OptionIds == {1, 2, 3}

InitQuote ==
    /\ underlying_state \in Snapshots
    /\ \A i \in 1..Len(underlying_state) : ValidUnderlying(underlying_state[i])
    /\ active_option_state = <<>>
    /\ option_quantity_by_option_id = [id \in OptionIds |-> 0]
    /\ underlying_quantity_by_underlying_id = <<>>
    /\ calls = <<>>
    /\ last = Operation("init", NoOption, NoResult)
    /\ bid_hits = [id \in OptionIds |-> 0]
    /\ offer_hits = [id \in OptionIds |-> 0]
    /\ direct_calls = 0
    /\ ledger_changed = FALSE

NextQuote ==
    \/ \E o \in QueryOptions : PriceOption(o)
    \/ \E o \in QueryOptions : MakeMarket(o)

SpecQuote == InitQuote /\ [][NextQuote]_vars

(***************************** constructing an underlying *******************)
MaxStepTicks == 3

\* the arguments a caller may pass to Underlying(...): step sizes from -0.25 to
\* MaxStepTicks quarters, probabilities from -1/den to den/den over den 2 and 4
UnderlyingArguments ==
    UNION { { Underlying(3, 400, dp, ds, up, us, pd) :
                dp \in -1..pd, up \in -1..pd,
                ds \in -1..MaxStepTicks, us \in -1..MaxStepTicks } :
            pd \in {2, 4} }

\* Underlying(...): the generated __init__ stores the fields, then
\* __post_init__ raises ValueError or returns
NewUnderlying(u) ==
    /\ last' = [Operation("Underlying", NoOption, NoResult) EXCEPT
                   !.underlying = u,
                   !.raised = IF ValidUnderlying(u) THEN "none" ELSE "ValueError"]
    /\ calls' = <<>>
    /\ ledger_changed' = FALSE
    /\ UNCHANGED <<underlying_state, active_option_state, option_quantity_by_option_id,
                   underlying_quantity_by_underlying_id, bid_hits, offer_hits, direct_calls>>

InitUnderlying ==
    /\ underlying_state = <<>>
    /\ active_option_state = <<>>
    /\ option_quantity_by_option_id = [id \in OptionIds |-> 0]
    /\ underlying_quantity_by_underlying_id = <<>>
    /\ calls = <<>>
    /\ last = Operation("init", NoOption, NoResult)
    /\ bid_hits = [id \in OptionIds |-> 0]
    /\ offer_hits = [id \in OptionIds |-> 0]
    /\ direct_calls = 0
    /\ ledger_changed = FALSE

NextUnderlying == \E u \in UnderlyingArguments : NewUnderlying(u)

SpecUnderlying == InitUnderlying /\ [][NextUnderlying]_vars

(***************************** the market maker ******************************)
\* the three contracts of the book, at the given steps until expiry
O1(steps) == Option(1, "CALL", steps, 9, 1)
O2(steps) == Option(2, "PUT", steps, 10, 1)
O3(steps) == Option(3, "CALL", steps, 100, 2)

\* what the driver may hand to on_step_advance: (underlyings, active options)
Markets ==
    { << <<U1(40), U2(400)>>, <<O1(MaxSteps), O2(MaxSteps - 1), O3(MaxSteps)>> >>,
      << <<U2Up(396), U1(36)>>, <<O3(1), O1(1), O2(0)>> >>,
      << <<U1(41)>>, <<O1(0), O3(0)>> >> }

\* the ids for which trade_underlying_callback raises during one operation
FailingSets == {{}, {2}}

\* quantities a caller may pass to buy_underlying / sell_underlying, in thousandths
QtyInputs == {-1000, 0, 1004}

RECURSIVE SumOver(_, _)
SumOver(f, S) ==
    IF S = {} THEN 0
    ELSE LET x == CHOOSE y \in S : TRUE IN f[x] + SumOver(f, S \ {x})

Fills == SumOver(bid_hits, OptionIds) + SumOver(offer_hits, OptionIds)

Active == {active_option_state[i] : i \in 1..Len(active_option_state)}

base_on_offer_hit_buys(quantities, o) == add_option_quantity(quantities, o.option_id, 1)

\* BaseMarketMaker.on_bid_hit
base_on_bid_hit(quantities, o) == add_option_quantity(quantities, o.option_id, 1)

\* BaseMarketMaker.on_offer_hit
base_on_offer_hit(quantities, o) == add_option_quantity(quantities, o.option_id, -1)

Init ==
    /\ \E m \in Markets :
          /\ m[2][1].steps_until_expiry = MaxSteps
          /\ underlying_state = m[1]
          /\ active_option_state = m[2]
    /\ \A i \in 1..Len(underlying_state) : ValidUnderlying(underlying_state[i])
    /\ \A i \in 1..Len(active_option_state) : ValidOption(active_option_state[i])
    /\ option_quantity_by_option_id = [id \in OptionIds |-> 0]
    /\ underlying_quantity_by_underlying_id = <<>>
    /\ calls = <<>>
    /\ last = Operation("init", NoOption, NoResult)
    /\ bid_hits = [id \in OptionIds |-> 0]
    /\ offer_hits = [id \in OptionIds |-> 0]
    /\ direct_calls = 0
    /\ ledger_changed = FALSE

\* MarketMaker.on_bid_hit -> BaseMarketMaker.on_bid_hit
OnBidHit(o) ==
    /\ Fills < MaxHits
    /\ option_quantity_by_option_id' = base_on_bid_hit(option_quantity_by_option_id, o)
    /\ bid_hits' = [bid_hits EXCEPT ![o.option_id] = @ + 1]
    /\ last' = Operation("on_bid_hit", NoOption, NoResult)
    /\ calls' = <<>>
    /\ ledger_changed' = FALSE
    /\ UNCHANGED <<underlying_state, active_option_state,
                   underlying_quantity_by_underlying_id, offer_hits, direct_calls>>

\* MarketMaker.on_offer_hit -> BaseMarketMaker.on_offer_hit
OnOfferHit(o) ==
    /\ Fills < MaxHits
    /\ option_quantity_by_option_id' = base_on_offer_hit(option_quantity_by_option_id, o)
    /\ offer_hits' = [offer_hits EXCEPT ![o.option_id] = @ + 1]
    /\ last' = Operation("on_offer_hit", NoOption, NoResult)
    /\ calls' = <<>>
    /\ ledger_changed' = FALSE
    /\ UNCHANGED <<underlying_state, active_option_state,
                   underlying_quantity_by_underlying_id, bid_hits, direct_calls>>

\* MarketMaker.on_step_advance: the snapshots are replaced, then one hedge pass
OnStepAdvance(new_underlying_state, new_option_state, failing) ==
    \E h \in {Hedge(new_underlying_state, new_option_state,
                    option_quantity_by_option_id,
                    underlying_quantity_by_underlying_id, failing)} :
        LET again == /\ last.name = "on_step_advance"
                     /\ last.raised = "none"
                     /\ new_underlying_state = underlying_state
                     /\ new_option_state = active_option_state
        IN  /\ \A i \in 1..Len(new_underlying_state) :
                  ValidUnderlying(new_underlying_state[i])
            /\ \A i \in 1..Len(new_option_state) : ValidOption(new_option_state[i])
            /\ underlying_state' = new_underlying_state
            /\ active_option_state' = new_option_state
            /\ underlying_quantity_by_underlying_id' = h.ledger
            /\ calls' = h.calls
            /\ last' = [Operation("on_step_advance", NoOption, NoResult) EXCEPT
                           !.raised = h.raised,
                           !.repeat = IF ~again THEN "no"
                                      ELSE IF calls # <<>> THEN "after_trade"
                                      ELSE "after_idle"]
            /\ ledger_changed' = (h.ledger # underlying_quantity_by_underlying_id)
            /\ UNCHANGED <<option_quantity_by_option_id, bid_hits, offer_hits,
                           direct_calls>>

\* buy_underlying called by the strategy's owner rather than by the hedger
BuyUnderlying(underlying_id, quantity, failing) ==
    LET r == buy_underlying(underlying_quantity_by_underlying_id, underlying_id,
                            quantity, failing)
    IN  /\ direct_calls < MaxDirect
        /\ direct_calls' = direct_calls + 1
        /\ underlying_quantity_by_underlying_id' = r.ledger
        /\ calls' = r.calls
        /\ last' = [Operation("buy_underlying", NoOption, NoResult) EXCEPT
                       !.raised = r.raised, !.underlying_id = underlying_id,
                       !.quantity = quantity]
        /\ ledger_changed' = (r.ledger # underlying_quantity_by_underlying_id)
        /\ UNCHANGED <<underlying_state, active_option_state,
                       option_quantity_by_option_id, bid_hits, offer_hits>>

\* sell_underlying called by the strategy's owner rather than by the hedger
SellUnderlying(underlying_id, quantity, failing) ==
    LET r == sell_underlying(underlying_quantity_by_underlying_id, underlying_id,
                             quantity, failing)
    IN  /\ direct_calls < MaxDirect
        /\ direct_calls' = direct_calls + 1
        /\ underlying_quantity_by_underlying_id' = r.ledger
        /\ calls' = r.calls
        /\ last' = [Operation("sell_underlying", NoOption, NoResult) EXCEPT
                       !.raised = r.raised, !.underlying_id = underlying_id,
                       !.quantity = quantity]
        /\ ledger_changed' = (r.ledger # underlying_quantity_by_underlying_id)
        /\ UNCHANGED <<underlying_state, active_option_state,
                       option_quantity_by_option_id, bid_hits, offer_hits>>

Next ==
    \/ \E o \in Active : OnBidHit(o)
    \/ \E o \in Active : OnOfferHit(o)
    \/ \E m \in Markets, failing \in FailingSets : OnStepAdvance(m[1], m[2], failing)
    \/ \E uid \in UnderlyingIds, q \in QtyInputs, failing \in FailingSets :
          BuyUnderlying(uid, q, failing)
    \/ \E uid \in UnderlyingIds, q \in QtyInputs, failing \in FailingSets :
          SellUnderlying(uid, q, failing)

Spec == Init /\ [][Next]_vars

(***************************** claims: pricer and quotes *******************)
SpotShift == 4

RECURSIVE Choose(_, _)
Choose(n, k) == IF k = 0 \/ k = n THEN 1 ELSE Choose(n - 1, k - 1) + Choose(n - 1, k)

RECURSIVE SumTo(_, _, _, _)
SumTo(o, u, n, j) ==
    IF j > n THEN 0
    ELSE Choose(n, j) * Pow(u.up_move_probability, j)
            * Pow(u.down_move_probability, n - j)
            * (LET node == u.valuation + j * u.up_move_step - (n - j) * u.down_move_step
                   strike == o.strike * TicksPerUnit
               IN  IF o.option_type = "CALL" THEN Max(node - strike, 0)
                   ELSE Max(strike - node, 0))
         + SumTo(o, u, n, j + 1)

\* sum over j of C(n,j) pUp^j pDown^(n-j) payoff(node j), over TicksPerUnit * den^n
BinomialSum(o, u) == SumTo(o, u, o.steps_until_expiry, 0)

LastUnderlying == FindUnderlying(underlying_state, last.option.underlying_id)

\* the snapshot list with the valuation of underlying uid replaced
WithValuation(us, uid, val) ==
    [i \in 1..Len(us) |->
        IF us[i].underlying_id = uid THEN [us[i] EXCEPT !.valuation = val] ELSE us[i]]

Queried(name) == last.name = name /\ LastUnderlying # NoUnderlying

\* C1: for every valid option whose underlying is in the snapshot list,
\* make_market returns a pair (bid, offer) with bid <= offer and bid >= 0,
\* at expiry, for a calm option and in every other case.
C1_QuoteIsOrdered ==
    Queried("make_market") =>
        /\ last.raised = "none"
        /\ last.bid <= last.offer
        /\ last.bid >= 0

\* C2: the quote make_market returns has a width between 0.03 and
\* 10.0 + 0.10 * max(1, fair value), the fair value being price_option's.
C2_SpreadWithinBounds ==
    Queried("make_market") =>
        LET fair == price_option(underlying_state, last.option)
        IN  /\ last.raised = "none"
            /\ last.offer - last.bid >= 3 * (last.den \div 100)
            /\ last.offer - last.bid
                 <= 10 * last.den
                    + ((last.den \div fair.den) \div 10) * Max(fair.den, fair.num)

\* C3: with steps_until_expiry = n > 0, price_option returns the binomial sum
\* over j = 0..n of C(n,j) pUp^j pDown^(n-j) payoff(spot + j*up - (n-j)*down);
\* the value is never negative, and spot 100, steps 1/1, probabilities 1/2,
\* call struck at 100 with n = 2 is worth 0.5.
C3_LatticeIsBinomialSum ==
    (Queried("price_option") /\ last.option.steps_until_expiry > 0) =>
        /\ last.raised = "none"
        /\ last.den = TicksPerUnit
                        * Pow(LastUnderlying.probability_den, last.option.steps_until_expiry)
        /\ last.num = BinomialSum(last.option, LastUnderlying)
        /\ last.num >= 0
        /\ (/\ LastUnderlying = U2(100 * TicksPerUnit)
            /\ last.option.option_type = "CALL"
            /\ last.option.strike = 100
            /\ last.option.steps_until_expiry = 2) => 2 * last.num = last.den

C3_Witness ==
    /\ Queried("price_option")
    /\ LastUnderlying = U2(100 * TicksPerUnit)
    /\ last.option = Option(9, "CALL", 2, 100, 2)
    /\ last.raised = "none"
    /\ 2 * last.num = last.den

\* C4: with steps_until_expiry = 0, price_option returns the intrinsic value at
\* the underlying's valuation, max(spot - strike, 0) for a call and
\* max(strike - spot, 0) for a put; call, spot 105, strike 100 gives 5.
C4_ExpiryIsIntrinsic ==
    (Queried("price_option") /\ last.option.steps_until_expiry = 0) =>
        /\ last.raised = "none"
        /\ last.den = TicksPerUnit
        /\ last.num = expiry_valuation(last.option, LastUnderlying.valuation)
        /\ (/\ LastUnderlying.valuation = 105 * TicksPerUnit
            /\ last.option.option_type = "CALL"
            /\ last.option.strike = 100) => last.num = 5 * last.den

C4_Witness ==
    /\ Queried("price_option")
    /\ last.option = Option(9, "CALL", 0, 100, 2)
    /\ LastUnderlying.valuation = 105 * TicksPerUnit
    /\ last.raised = "none"
    /\ last.num = 5 * last.den

\* C5: the price of a call never decreases when the spot increases, strike,
\* steps, probabilities and step sizes held fixed (steps = 0 and steps > 0).
C5_CallMonotoneInSpot ==
    (Queried("price_option") /\ last.option.option_type = "CALL") =>
        \A d \in 1..SpotShift :
            LET uid == last.option.underlying_id
                val == LastUnderlying.valuation
                higher == price_option(WithValuation(underlying_state, uid, val + d),
                                       last.option)
                lower == price_option(WithValuation(underlying_state, uid, val - d),
                                      last.option)
            IN  /\ last.num <= higher.num
                /\ val - d >= 0 => lower.num <= last.num

C5_Witness ==
    /\ Queried("price_option")
    /\ last.option.option_type = "CALL"
    /\ last.option.steps_until_expiry > 0
    /\ last.num > 0
    /\ last.num < price_option(WithValuation(underlying_state, last.option.underlying_id,
                                             LastUnderlying.valuation + 1),
                               last.option).num

\* C8: with steps_until_expiry = 0, make_market returns
\* bid = max(intrinsic - 0.1, 0) and offer = intrinsic + 0.1.
C8_ExpiryQuote ==
    (Queried("make_market") /\ last.option.steps_until_expiry = 0) =>
        LET intrinsic == expiry_valuation(last.option, LastUnderlying.valuation)
        IN  /\ last.raised = "none"
            /\ 10 * TicksPerUnit * last.bid
                 = Max(10 * intrinsic * last.den - TicksPerUnit * last.den, 0)
            /\ 10 * TicksPerUnit * last.offer
                 = 10 * intrinsic * last.den + TicksPerUnit * last.den

\* C13: for every option classified calm (up step + down step < 2, at least 3
\* steps until expiry, |spot - strike| / max(1, spot) >= 0.10), make_market
\* returns a quote whose width is at most 0.80: offer - bid <= 0.80.
C13_CalmSpreadClamped ==
    (Queried("make_market") /\ IsCalm(last.option, LastUnderlying)) =>
        /\ last.raised = "none"
        /\ 5 * (last.offer - last.bid) <= 4 * last.den

(***************************** claims: fills, trades, hedger ****************)
InSnapshot(uid) == underlyings_by_id(underlying_state, uid) # NoUnderlying

\* held underlying quantity plus the sum of held option quantity times delta,
\* from the current ledger and snapshots: numerator over NetDeltaDen(uid)
RECURSIVE OptionExposure(_, _)
OptionExposure(uid, i) ==
    IF i > Len(active_option_state) THEN 0
    ELSE LET o == active_option_state[i]
             q == option_quantity_by_option_id[o.option_id]
         IN  (IF o.underlying_id = uid /\ q # 0
              THEN q * delta_estimate(o, underlyings_by_id(underlying_state, uid))
              ELSE 0)
             + OptionExposure(uid, i + 1)

NetDeltaDen(uid) == DeltaDen(underlyings_by_id(underlying_state, uid))

NetDelta(uid) ==
    DictGet(underlying_quantity_by_underlying_id, uid, 0)
        * (NetDeltaDen(uid) \div LedgerPerUnit)
    + OptionExposure(uid, 1)

HedgePassDone == last.name = "on_step_advance" /\ last.raised = "none"

C7_NetDeltaWithinDeadband ==
    HedgePassDone =>
        \A uid \in UnderlyingIds :
            InSnapshot(uid) => 10 * Abs(NetDelta(uid)) <= NetDeltaDen(uid)

\* C7 as amended: after a hedge pass that completes without error, every
\* underlying's recomputed net delta is within the deadband widened by the
\* rounding of the traded quantity to a whole unit, |netDelta| <= 0.1 + 0.5.
C7_NetDeltaWithinRounding ==
    HedgePassDone =>
        \A uid \in UnderlyingIds :
            InSnapshot(uid) => 10 * Abs(NetDelta(uid)) <= 6 * NetDeltaDen(uid)

C7_Witness ==
    /\ HedgePassDone
    /\ \E i \in 1..Len(calls) :
          10 * Abs(NetDelta(calls[i].underlying_id)) > NetDeltaDen(calls[i].underlying_id)

\* C9: the held quantity of each option id is the number of its bid hits minus
\* the number of its offer hits; a fill changes no underlying quantity and
\* issues no trade, and no other operation changes an option quantity.
C9_OptionQuantityIsNetFills ==
    /\ \A id \in OptionIds :
          option_quantity_by_option_id[id] = bid_hits[id] - offer_hits[id]
    /\ last.name \in {"on_bid_hit", "on_offer_hit"} => (calls = <<>> /\ ~ledger_changed)

C9_Witness ==
    /\ HedgePassDone
    /\ calls # <<>>
    /\ \E id \in OptionIds : bid_hits[id] > 0
    /\ \E id \in OptionIds : offer_hits[id] > 0

\* C10: buy_underlying and sell_underlying with quantity <= 0 raise before the
\* trade callback is invoked and leave the ledger unchanged; every call the
\* callback receives carries a nonzero signed quantity, positive for a buy and
\* negative for a sell, and a hedge pass never requests a zero quantity.
C10_NonPositiveTradeRejected ==
    /\ (last.name \in {"buy_underlying", "sell_underlying"} /\ last.quantity <= 0) =>
          (last.raised = "ValueError" /\ calls = <<>> /\ ~ledger_changed)
    /\ \A i \in 1..Len(calls) :
          /\ calls[i].quantity # 0
          /\ last.name = "buy_underlying" => calls[i].quantity = last.quantity
          /\ last.name = "sell_underlying" => calls[i].quantity = -last.quantity
          /\ last.name = "on_step_advance" => calls[i].quantity % QtyPerUnit = 0

C10_Witness ==
    /\ last.name = "buy_underlying"
    /\ last.quantity = 0
    /\ last.raised = "ValueError"
    /\ calls = <<>>

\* the signed quantity, in thousandths, the calls made[1..n] carry for uid
RECURSIVE TradedQuantity(_, _, _)
TradedQuantity(made, uid, n) ==
    IF n = 0 THEN 0
    ELSE (IF made[n].underlying_id = uid THEN made[n].quantity ELSE 0)
         + TradedQuantity(made, uid, n - 1)

HedgePassFailed == last.name = "on_step_advance" /\ last.raised = "CallbackError"

\* C11: when the trade callback raises for one underlying partway through a
\* hedge pass, on_step_advance raises that error, the call that raised is the
\* last one made, and the ledger after the pass is the ledger before it plus
\* exactly the signed quantities of the calls the callback accepted: the trades
\* made earlier in the pass stay recorded and the failing one is not recorded.
C11_FailedPassKeepsAcceptedTrades ==
    [][HedgePassFailed' =>
          /\ calls' # <<>>
          /\ \A i \in 1..(Len(calls') - 1) :
                calls'[i].underlying_id # calls'[Len(calls')].underlying_id
          /\ \A uid \in UnderlyingIds :
                /\ (QtyPerUnit \div LedgerPerUnit)
                      * DictGet(underlying_quantity_by_underlying_id', uid, 0)
                   = (QtyPerUnit \div LedgerPerUnit)
                      * DictGet(underlying_quantity_by_underlying_id, uid, 0)
                     + TradedQuantity(calls', uid, Len(calls') - 1)
                /\ DictHas(underlying_quantity_by_underlying_id', uid)
                     <=> \/ DictHas(underlying_quantity_by_underlying_id, uid)
                         \/ \E i \in 1..(Len(calls') - 1) : calls'[i].underlying_id = uid
          /\ ledger_changed' = (Len(calls') > 1)]_vars

\* a pass that failed on one underlying after a trade on another was accepted
C11_Witness ==
    /\ HedgePassFailed
    /\ Len(calls) >= 2
    /\ calls[Len(calls)].quantity < 0
    /\ ledger_changed
    /\ \E i \in 1..(Len(calls) - 1) :
          /\ calls[i].underlying_id # calls[Len(calls)].underlying_id
          /\ DictHas(underlying_quantity_by_underlying_id, calls[i].underlying_id)

(***************************** claims: construction *************************)
\* expected step up_p * up_step - down_p * down_step, over TicksPerUnit * den
ExpectedStep(u) ==
    u.up_move_probability * u.up_move_step - u.down_move_probability * u.down_move_step

\* |expected step| <= 1e-5
ZeroDrift(u) == 100000 * Abs(ExpectedStep(u)) <= TicksPerUnit * u.probability_den

Constructed == last.name = "Underlying" /\ last.raised = "none"

\* C12: every Underlying constructed successfully has an expected step within
\* 1e-5 of zero, |up_p * up_step - down_p * down_step| <= 1e-5; construction
\* raises for arguments whose drift exceeds the tolerance, for a non-positive
\* step size, for a non-positive probability and for probabilities that do not
\* sum to 1.
C12_ZeroDriftEnforced ==
    last.name = "Underlying" =>
        LET u == last.underlying
        IN  /\ last.raised = "none" => ZeroDrift(u)
            /\ (\/ ~ZeroDrift(u)
                 \/ u.down_move_step <= 0 \/ u.up_move_step <= 0
                 \/ u.down_move_probability <= 0 \/ u.up_move_probability <= 0
                 \/ u.down_move_probability + u.up_move_probability # u.probability_den)
                  => last.raised = "ValueError"

====
